---- MODULE Spec2Model ----
(***************************************************************************)
(* kxo userspace monitor (xo-user.c) and its move-history queue           *)
(* (record_queue.c over the circular doubly-linked list of list.h).       *)
(*                                                                         *)
(* Four specifications share the state:                                    *)
(*   Spec      the session: main() from start-up to process exit, with the *)
(*             keyboard and the kernel device as the environment;          *)
(*   SpecLive  the session with the select loop running on (fairness);     *)
(*   SpecQ     the queue interface called directly with arbitrary          *)
(*             arguments (q_new, q_insert_head, record_move,               *)
(*             record_to_queue, q_free);                                   *)
(*   SpecCodec the macros of kxo_pkg.h applied to any status byte.         *)
(***************************************************************************)
EXTENDS Integers, Sequences, FiniteSets, TLC

VARIABLES
    pc,           \* position of main(): start, loop, report, done, exit1, undefined;
                  \* api/freed in SpecQ, codec in SpecCodec
    table,        \* static char table[N_GRIDS]            (xo-user.c:147)
    move_record,  \* static int move_record[N_GRIDS]       (xo-user.c:19)
    move_count,   \* static int move_count                 (xo-user.c:20)
    head,         \* static struct list_head *head         (xo-user.c:21)
    mem,          \* the allocator: blocks, and its alloc/free counters
    read_attr,    \* display_enabled shadow flag           (xo-user.c:80)
    end_attr,     \* terminate_requested flag              (xo-user.c:80)
    attr,         \* the 6-byte record of the attribute file
    tty,          \* standard input: [raw, nonblock]
    entry,        \* traversal cursor of the final report  (xo-user.c:197)
    safe,         \* traversal look-ahead of the final report
    pkg_obj,      \* static struct package pkg_obj         (xo-user.c:149)
    input,        \* char input of listen_keyboard_handler (xo-user.c:85)
    kbd,          \* select: a byte waits on standard input
    nodata,       \* select: standard input is readable with no byte to read:
                  \* "eagain" (once), "eof" (from then on), or "none"
    dev,          \* select: a record waits on the device file
    n_dev,        \* records the device has produced
    n_key,        \* times standard input has become readable
    n_ops,        \* calls made through the queue interface (SpecQ)
    pushed,       \* history: the (moves, winner) of each successful q_insert_head, oldest first
    printed,      \* history: the records printed by the final report, in print order
    game_moves,   \* history: valid move indices received since the last end-flag record
    rendered,     \* the board painted by the latest step, <<>> when it painted nothing
    dev_after_term, \* history: device records read since the terminate key was handled
    last          \* the latest call and what it returned

vars == <<pc, table, move_record, move_count, head, mem, read_attr, end_attr,
          pkg_obj, input, attr, tty, entry, safe, kbd, nodata, dev, n_dev, n_key,
          n_ops, pushed, printed, game_moves, rendered, dev_after_term, last>>

(***************************************************************************)
(* Bounds of the model.                                                    *)
(***************************************************************************)
N_GRIDS == 2      \* board capacity; game.h is not part of the sources read
MaxEvents == 4    \* times the environment makes a file readable in one session
MaxAddr == 5      \* heap capacity, in blocks
MaxOps == 5       \* calls made through the queue interface in SpecQ

NULL == 0
Addr == 1..MaxAddr
Cells == 0..(N_GRIDS - 1)

(***************************************************************************)
(* Characters, as their codes.                                             *)
(***************************************************************************)
CH_NUL == 0       \* a byte of zero-initialised static storage
CH_SP == 32       \* ' '
CH_0 == 48        \* '0'
CH_1 == 49        \* '1'
CTRL_P == 16
CTRL_Q == 17
NO_MOVE == -1
Marks == {79, 88}                 \* 'O' and 'X', the marks the kernel sends
OtherKeys == {97}                 \* a key that is neither Ctrl-P nor Ctrl-Q
Keys == {CTRL_P, CTRL_Q} \cup OtherKeys
AttrLive == <<CH_1, CH_SP, CH_1, CH_SP, CH_0, 10>>   \* "1 1 0\n"

(***************************************************************************)
(* Protocol codec (kxo_pkg.h): bit operations on one byte.                 *)
(***************************************************************************)
RECURSIVE BitAnd(_, _, _)
BitAnd(a, b, w) ==
    IF w = 0 THEN 0
    ELSE (IF a % 2 = 1 /\ b % 2 = 1 THEN 1 ELSE 0) + 2 * BitAnd(a \div 2, b \div 2, w - 1)

RECURSIVE BitOr(_, _, _)
BitOr(a, b, w) ==
    IF w = 0 THEN 0
    ELSE (IF a % 2 = 1 \/ b % 2 = 1 THEN 1 ELSE 0) + 2 * BitOr(a \div 2, b \div 2, w - 1)

PKG_GET_AI(val) == BitAnd(val, 127, 8)

PKG_GET_END(val) == BitAnd(val, 128, 8) # 0

\* PKG_PUT_AI without the & 0x80 on the old status byte
PKG_PUT_AI_nomask(val, c) == BitOr(val, c, 8)

PKG_PUT_AI(val, c) == BitOr(BitAnd(val, 128, 8), c, 8)

PKG_SET_END(val) == BitOr(BitAnd(val, 127, 8), 128, 8)

\* PKG_CLR_END without the & 0x7F
PKG_CLR_END_nomask(val) == BitOr(val, 0, 8)

PKG_CLR_END(val) == BitOr(BitAnd(val, 127, 8), 0, 8)

(***************************************************************************)
(* The allocator.  A block is free or used; a used block holds the fields  *)
(* of whatever was stored in it (a list head, an element_t, an int array). *)
(***************************************************************************)
FreeBlk == [used |-> FALSE, prev |-> NULL, next |-> NULL, value |-> NULL,
            len |-> 0, ai |-> 0, data |-> <<>>]

EmptyMem == [blk |-> [a \in Addr |-> FreeBlk], nalloc |-> 0, nfree |-> 0, bad |-> FALSE]

\* malloc: the address of a free block, or NULL when the request fails
MallocAddr(h, ok) ==
    IF ok /\ \E a \in Addr : ~h.blk[a].used
    THEN CHOOSE a \in Addr : ~h.blk[a].used /\ \A b \in Addr : b < a => h.blk[b].used
    ELSE NULL

MallocTake(h, a) ==
    [h EXCEPT !.blk[a] = [FreeBlk EXCEPT !.used = TRUE], !.nalloc = @ + 1]

\* free: releasing what is not an allocated block is recorded in bad
Free(h, a) ==
    IF a \in Addr /\ h.blk[a].used
    THEN [h EXCEPT !.blk[a] = FreeBlk, !.nfree = @ + 1]
    ELSE [h EXCEPT !.bad = TRUE]

(***************************************************************************)
(* list.h                                                                  *)
(***************************************************************************)
INIT_LIST_HEAD(h, hd) ==
    [h EXCEPT !.blk[hd].next = hd, !.blk[hd].prev = hd]

\* list_add with the node linked before the head: insertion at the tail
list_add_tail(h, node, hd) ==
    LET prev == h.blk[hd].prev
        h1 == [h EXCEPT !.blk[prev].next = node]
        h2 == [h1 EXCEPT !.blk[node].next = hd]
        h3 == [h2 EXCEPT !.blk[node].prev = prev]
    IN [h3 EXCEPT !.blk[hd].prev = node]

list_add(h, node, hd) ==
    LET next == h.blk[hd].next
        h1 == [h EXCEPT !.blk[next].prev = node]
        h2 == [h1 EXCEPT !.blk[node].next = next]
        h3 == [h2 EXCEPT !.blk[node].prev = hd]
    IN [h3 EXCEPT !.blk[hd].next = node]

list_del(h, node) ==
    LET next == h.blk[node].next
        prev == h.blk[node].prev
        h1 == [h EXCEPT !.blk[next].prev = prev]
    IN [h1 EXCEPT !.blk[prev].next = next]

\* the nodes met by following next from e until hd, at most fuel of them
RECURSIVE Walk(_, _, _, _)
Walk(h, hd, e, fuel) ==
    IF e = hd \/ e = NULL \/ fuel = 0 THEN <<>>
    ELSE <<e>> \o Walk(h, hd, h.blk[e].next, fuel - 1)

\* what an element_t holds: its move array and its winner
EntryOf(h, e) ==
    [moves |-> IF h.blk[e].value = NULL THEN <<>>
               ELSE SubSeq(h.blk[h.blk[e].value].data, 1, h.blk[e].len),
     len |-> h.blk[e].len,
     winner |-> h.blk[e].ai]

\* front-to-back traversal of the queue (list_for_each_entry_safe)
QueueNodes(h, hd) == IF hd = NULL THEN <<>> ELSE Walk(h, hd, h.blk[hd].next, MaxAddr)

QueueEntries(h, hd) ==
    LET ns == QueueNodes(h, hd) IN [i \in 1..Len(ns) |-> EntryOf(h, ns[i])]

(***************************************************************************)
(* record_queue.c                                                          *)
(***************************************************************************)
\* q_new: [mem, ret]
q_new(h, ok) ==
    LET ret == MallocAddr(h, ok)
    IN IF ret # NULL
       THEN [mem |-> INIT_LIST_HEAD(MallocTake(h, ret), ret), ret |-> ret]
       ELSE [mem |-> h, ret |-> NULL]

\* q_free's loop without free(entry->value)
RECURSIVE q_free_loop_leak(_, _, _, _, _)
q_free_loop_leak(h, hd, e, s, fuel) ==
    IF e = hd \/ fuel = 0 THEN h
    ELSE LET h1 == list_del(h, e)
             h3 == Free(h1, e)
         IN q_free_loop_leak(h3, hd, s, h3.blk[s].next, fuel - 1)

\* the body of q_free's loop, from the cursor pair (e, s)
RECURSIVE q_free_loop(_, _, _, _, _)
q_free_loop(h, hd, e, s, fuel) ==
    IF e = hd \/ fuel = 0 THEN h
    ELSE LET h1 == list_del(h, e)
             h2 == IF h1.blk[e].value # NULL THEN Free(h1, h1.blk[e].value) ELSE h1
             h3 == Free(h2, e)
         IN q_free_loop(h3, hd, s, h3.blk[s].next, fuel - 1)

q_free(h, hd) ==
    IF hd = NULL THEN h
    ELSE LET e == h.blk[hd].next
         IN Free(q_free_loop(h, hd, e, h.blk[e].next, MaxAddr + 1), hd)

\* memcpy(node->value, move, len * sizeof(int))
CopyMoves(move, len) == [i \in 1..len |-> move[i - 1]]

\* q_insert_head with the node linked before its move array is allocated
q_insert_head_linkfirst(h, hd, move, len, ai, okNode, okValue) ==
    IF hd = NULL THEN [mem |-> h, ret |-> FALSE]
    ELSE LET node == MallocAddr(h, okNode)
         IN IF node = NULL THEN [mem |-> h, ret |-> FALSE]
            ELSE LET h1 == list_add(MallocTake(h, node), node, hd)
                     value == MallocAddr(h1, okValue)
                 IN IF value = NULL
                    THEN [mem |-> Free(h1, node), ret |-> FALSE]
                    ELSE LET h2 == MallocTake(h1, value)
                         IN [mem |-> [h2 EXCEPT !.blk[node].value = value,
                                                !.blk[node].len = len,
                                                !.blk[node].ai = ai,
                                                !.blk[value].data = [i \in 1..len |-> move[i - 1]]],
                             ret |-> TRUE]

\* q_insert_head: [mem, ret]; okNode and okValue say whether each malloc succeeds
q_insert_head(h, hd, move, len, ai, okNode, okValue) ==
    IF hd = NULL THEN [mem |-> h, ret |-> FALSE]
    ELSE LET node == MallocAddr(h, okNode)
         IN IF node = NULL THEN [mem |-> h, ret |-> FALSE]
            ELSE LET h1 == MallocTake(h, node)
                     value == MallocAddr(h1, okValue)
                 IN IF value = NULL
                    THEN [mem |-> Free(h1, node), ret |-> FALSE]
                    ELSE LET h2 == MallocTake(h1, value)
                             h3 == [h2 EXCEPT !.blk[node].value = value,
                                              !.blk[node].len = len,
                                              !.blk[node].ai = ai,
                                              !.blk[value].data = CopyMoves(move, len)]
                         IN [mem |-> list_add(h3, node, hd), ret |-> TRUE]

(***************************************************************************)
(* xo-user.c                                                               *)
(***************************************************************************)
\* record_move: [move_record, move_count].  With move_count >= N_GRIDS the
\* store lands in the int behind move_record[N_GRIDS - 1]; where that store does
\* no other damage, the memory behind the array holds the move from then on.
record_move(mr, mc, move) ==
    [move_record |-> IF mc \in DOMAIN mr THEN [mr EXCEPT ![mc] = move]
                     ELSE (mc :> move) @@ mr,
     move_count |-> mc + 1]

\* record_to_queue without its move_count == 0 test
record_to_queue_noguard(h, hd, mr, mc, winner, okNode, okValue) ==
    LET r == q_insert_head(h, hd, mr, mc, winner, okNode, okValue)
    IN IF ~r.ret
       THEN [mem |-> r.mem, move_count |-> mc, called |-> TRUE, ret |-> FALSE]
       ELSE [mem |-> r.mem, move_count |-> 0, called |-> TRUE, ret |-> TRUE]

\* record_to_queue: [mem, move_count, called, ret]
record_to_queue(h, hd, mr, mc, winner, okNode, okValue) ==
    IF mc = 0
    THEN [mem |-> h, move_count |-> mc, called |-> FALSE, ret |-> FALSE]
    ELSE LET r == q_insert_head(h, hd, mr, mc, winner, okNode, okValue)
         IN IF ~r.ret
            THEN [mem |-> r.mem, move_count |-> mc, called |-> TRUE, ret |-> FALSE]
            ELSE [mem |-> r.mem, move_count |-> 0, called |-> TRUE, ret |-> TRUE]

\* TCSAFLUSH: input received but not read is discarded
TcFlush(k) == FALSE

\* raw_mode_disable: tcsetattr(STDIN_FILENO, TCSAFLUSH, &orig_termios)
raw_mode_disable(t) == [t EXCEPT !.raw = t.orig_raw]

\* raw_mode_enable: save the mode, register the exit handler, clear ECHO | ICANON
raw_mode_enable(t) == [t EXCEPT !.orig_raw = t.raw, !.atexit = TRUE, !.raw = TRUE]

\* exit(): runs raw_mode_disable when it was registered with atexit
AtExit(t) == IF t.atexit THEN raw_mode_disable(t) ELSE t

\* buf[0] = '0' whatever it held
FlipDisplayOff(b) == CH_0

\* buf[0] = (buf[0] - '0') ? '0' : '1'
FlipDisplay(b) == IF b - CH_0 # 0 THEN CH_0 ELSE CH_1

\* read(attr_fd, buf, 6): the record when the file is open, else buf keeps what it held
AttrRead(a, openOk, junk) == IF openOk THEN a ELSE junk

\* write(attr_fd, buf, 6): replaces the record when the file is open
AttrWrite(a, openOk, buf) == IF openOk THEN buf ELSE a

\* what an uninitialised char buf[20] may hold in its first six bytes
JunkBufs == {<<CH_NUL, CH_NUL, CH_NUL, CH_NUL, CH_NUL, CH_NUL>>, AttrLive}

\* the display-toggle branch without read_attr ^= 1
KeyCtrlPKeepsFlag(ra, ea, a, openOk, junk) ==
    LET buf == AttrRead(a, openOk, junk)
        buf1 == [buf EXCEPT ![1] = FlipDisplay(buf[1])]
    IN [read_attr |-> ra, end_attr |-> ea, attr |-> AttrWrite(a, openOk, buf1)]

\* case 16: buf[0] flipped; read_attr ^= 1
KeyCtrlP(ra, ea, a, openOk, junk) ==
    LET buf == AttrRead(a, openOk, junk)
        buf1 == [buf EXCEPT ![1] = FlipDisplay(buf[1])]
    IN [read_attr |-> ~ra, end_attr |-> ea, attr |-> AttrWrite(a, openOk, buf1)]

\* the terminate branch without read_attr = false
KeyCtrlQKeepsDisplay(ra, ea, a, openOk, junk) ==
    LET buf == AttrRead(a, openOk, junk)
        buf1 == [buf EXCEPT ![5] = CH_1]
    IN [read_attr |-> ra, end_attr |-> TRUE, attr |-> AttrWrite(a, openOk, buf1)]

\* case 17: buf[4] = '1'; read_attr = false; end_attr = true
KeyCtrlQ(ra, ea, a, openOk, junk) ==
    LET buf == AttrRead(a, openOk, junk)
        buf1 == [buf EXCEPT ![5] = CH_1]
    IN [read_attr |-> FALSE, end_attr |-> TRUE, attr |-> AttrWrite(a, openOk, buf1)]

\* listen_keyboard_handler after read(STDIN_FILENO, &input, 1) == 1:
\* [read_attr, end_attr, attr]
listen_keyboard_handler(key, ra, ea, a, openOk, junk) ==
    IF key = CTRL_P THEN KeyCtrlP(ra, ea, a, openOk, junk)
    ELSE IF key = CTRL_Q THEN KeyCtrlQ(ra, ea, a, openOk, junk)
    ELSE [read_attr |-> ra, end_attr |-> ea, attr |-> a]

\* the heartbeat test without its negation
IsHeartbeatEndSet(p) == p.move = NO_MOVE /\ PKG_GET_END(p.val)

\* pkg_obj.move == -1 && !PKG_GET_END(pkg_obj.val)
IsHeartbeat(p) == p.move = NO_MOVE /\ ~PKG_GET_END(p.val)

\* memset(table, ' ', N_GRIDS)
ClearedTable == [c \in Cells |-> CH_SP]

(***************************************************************************)
(* The records the kernel device sends: a move with its mark, with or      *)
(* without the end flag; an end record without a move; a heartbeat.        *)
(***************************************************************************)
DevPkgs ==
    {[val |-> v, move |-> m] : v \in Marks \cup {PKG_SET_END(k) : k \in Marks}, m \in Cells}
    \cup {[val |-> PKG_SET_END(k), move |-> NO_MOVE] : k \in Marks}
    \cup {[val |-> 0, move |-> NO_MOVE]}

(***************************************************************************)
(* Initial states.                                                         *)
(***************************************************************************)
InitCommon ==
    /\ table = [c \in Cells |-> CH_NUL]
    /\ move_record = [c \in Cells |-> 0]
    /\ move_count = 0
    /\ head = NULL
    /\ mem = EmptyMem
    /\ read_attr = FALSE
    /\ end_attr = FALSE
    /\ attr = AttrLive
    /\ tty = [raw |-> FALSE, nonblock |-> FALSE, orig_raw |-> FALSE,
              flags |-> FALSE, atexit |-> FALSE]
    /\ entry = NULL
    /\ safe = NULL
    /\ pkg_obj = [val |-> 0, move |-> 0]
    /\ input = 0
    /\ kbd = FALSE
    /\ nodata = "none"
    /\ dev = FALSE
    /\ n_dev = 0
    /\ n_key = 0
    /\ n_ops = 0
    /\ pushed = <<>>
    /\ printed = <<>>
    /\ game_moves = <<>>
    /\ rendered = <<>>
    /\ dev_after_term = 0
    /\ last = [op |-> "none", arg |-> 0, called |-> FALSE, ret |-> FALSE]

Init == InitCommon /\ pc = "start"

InitQ == InitCommon /\ pc = "api"

(***************************************************************************)
(* The environment of the session.  What waits on a file is decided when   *)
(* it is read: nothing in the program sees it earlier.                     *)
(***************************************************************************)
Running == pc = "loop" /\ ~end_attr

\* a key is pressed: one byte waits on standard input
KeyPress ==
    /\ Running /\ ~kbd /\ nodata = "none" /\ n_key + n_dev < MaxEvents
    /\ kbd' = TRUE
    /\ n_key' = n_key + 1
    /\ UNCHANGED <<pc, table, move_record, move_count, head, mem, read_attr, end_attr,
                   pkg_obj, input, attr, tty, entry, safe, nodata, dev, n_dev, n_ops,
                   pushed, printed, game_moves, rendered, dev_after_term, last>>

\* standard input becomes readable with nothing to read: its byte was taken
\* elsewhere (the read will fail with EAGAIN), or it reached end of file
StdinNoData ==
    /\ Running /\ ~kbd /\ nodata = "none" /\ n_key + n_dev < MaxEvents
    /\ nodata' \in {"eagain", "eof"}
    /\ n_key' = n_key + 1
    /\ UNCHANGED <<pc, table, move_record, move_count, head, mem, read_attr, end_attr,
                   pkg_obj, input, attr, tty, entry, safe, kbd, dev, n_dev, n_ops,
                   pushed, printed, game_moves, rendered, dev_after_term, last>>

\* the kernel queues one record
DevProduce ==
    /\ Running /\ ~dev /\ n_key + n_dev < MaxEvents
    /\ dev' = TRUE
    /\ n_dev' = n_dev + 1
    /\ UNCHANGED <<pc, table, move_record, move_count, head, mem, read_attr, end_attr,
                   pkg_obj, input, attr, tty, entry, safe, kbd, nodata, n_key, n_ops, pushed,
                   printed, game_moves, rendered, dev_after_term, last>>

(***************************************************************************)
(* main()                                                                  *)
(***************************************************************************)
\* lines 141-160: status_check, raw_mode_enable, fcntl, q_new, open, the two flags
Startup ==
    /\ pc = "start"
    /\ \E live \in BOOLEAN, ok \in BOOLEAN :
          IF ~live
          THEN /\ pc' = "exit1"
               /\ UNCHANGED <<tty, head, mem, read_attr, end_attr, kbd>>
          ELSE LET t1 == raw_mode_enable(tty)
                   t2 == [t1 EXCEPT !.flags = t1.nonblock, !.nonblock = TRUE]
                   q == q_new(mem, ok)
               IN /\ head' = q.ret
                  /\ mem' = q.mem
                  /\ kbd' = TcFlush(kbd)
                  /\ IF q.ret = NULL
                     THEN /\ pc' = "exit1"
                          /\ tty' = AtExit(t2)
                          /\ UNCHANGED <<read_attr, end_attr>>
                     ELSE /\ pc' = "loop"
                          /\ tty' = t2
                          /\ read_attr' = TRUE
                          /\ end_attr' = FALSE
    /\ UNCHANGED <<table, move_record, move_count, pkg_obj, input, attr, entry, safe,
                   nodata, dev, n_dev, n_key, n_ops, pushed, printed, game_moves, rendered,
                   dev_after_term, last>>

\* the loop condition tested after the body instead of before it
LoopContinuesLate(ea) == TRUE

\* line 162: while (!end_attr)
LoopContinues(ea) == ~ea

\* lines 167-171: select fails
SelectError ==
    /\ pc = "loop" /\ LoopContinues(end_attr)
    /\ pc' = "exit1"
    /\ tty' = AtExit(tty)
    /\ kbd' = TcFlush(kbd)
    /\ rendered' = <<>>
    /\ UNCHANGED <<table, move_record, move_count, head, mem, read_attr, end_attr,
                   pkg_obj, input, attr, entry, safe, nodata, dev, n_dev, n_key,
                   n_ops, pushed, printed, game_moves, dev_after_term, last>>

\* FD_ISSET(STDIN_FILENO, &readset): a byte waits, or there is none to read
StdinReadable(k, nd) == k \/ nd # "none"

\* what select reports next about a standard input that had no byte to read:
\* an end of file stays readable, a byte taken elsewhere does not
AfterEmptyRead(nd) == IF nd = "eof" THEN "eof" ELSE "none"

\* lines 172-174: standard input is ready
KeyboardReady ==
    /\ pc = "loop" /\ LoopContinues(end_attr)
    /\ StdinReadable(kbd, nodata)
    /\ IF kbd
       THEN \* read(STDIN_FILENO, &input, 1) == 1
            /\ \E k \in Keys, openOk \in BOOLEAN :
               \E junk \in (IF openOk THEN {attr} ELSE JunkBufs) :
                  LET r == listen_keyboard_handler(k, read_attr, end_attr, attr,
                                                   openOk, junk)
                  IN /\ input' = k
                     /\ read_attr' = r.read_attr
                     /\ end_attr' = r.end_attr
                     /\ attr' = r.attr
                     /\ last' = [op |-> "open", arg |-> 0, called |-> TRUE, ret |-> openOk]
            /\ nodata' = nodata
       ELSE \* read returns 0 or -1: the handler only opens and closes the file
            /\ \E openOk \in BOOLEAN :
                  last' = [op |-> "open", arg |-> 0, called |-> TRUE, ret |-> openOk]
            /\ nodata' = AfterEmptyRead(nodata)
            /\ UNCHANGED <<input, read_attr, end_attr, attr>>
    /\ kbd' = FALSE
    /\ rendered' = <<>>
    /\ UNCHANGED <<pc, table, move_record, move_count, head, mem, pkg_obj, tty, entry,
                   safe, dev, n_dev, n_key, n_ops, pushed, printed, game_moves,
                   dev_after_term>>

\* history: the first n entries of the caller's move buffer, as a sequence
Taken(mr, n) == [i \in 1..n |-> mr[i - 1]]

\* the mark of the player to move: the two players move in turn, 'O' first
TurnMark == IF Len(game_moves) % 2 = 0 THEN 79 ELSE 88

\* the kernel sends at most N_GRIDS moves between two end-flag records, each
\* with the mark of the player whose turn it is
DevMaySend(p) ==
    p.move # NO_MOVE => (Len(game_moves) < N_GRIDS /\ PKG_GET_AI(p.val) = TurnMark)

\* lines 172-175: the device branch is the else of the standard input branch
DeviceSelected(k, d) == ~k /\ d

\* the board painted whatever read_attr holds
RenderedBoardAlways(ra, t) == <<t>>

\* lines 184-189: if (read_attr) the board is drawn and printed
RenderedBoard(ra, t) == IF ra THEN <<t>> ELSE <<>>

\* malloc can fail only where it is called: on an end-flag record
AllocOutcomes(p) == IF PKG_GET_END(p.val) THEN BOOLEAN ELSE {TRUE}

\* lines 175-194: the device is ready and standard input is not
DeviceReady ==
    /\ pc = "loop" /\ LoopContinues(end_attr)
    /\ DeviceSelected(StdinReadable(kbd, nodata), dev)
    /\ dev' = FALSE
    /\ dev_after_term' = IF end_attr THEN dev_after_term + 1 ELSE dev_after_term
    /\ \E p \in DevPkgs :
       /\ DevMaySend(p)
       /\ pkg_obj' = p
       /\ IF IsHeartbeat(p)
          THEN /\ rendered' = <<>>
               /\ UNCHANGED <<pc, table, move_record, move_count, mem, pushed,
                              game_moves, last>>
          ELSE \/ \* record_move writes past move_record and the store damages
                  \* the process: from here on nothing is known about it
                  /\ p.move # NO_MOVE /\ move_count >= N_GRIDS
                  /\ pc' = "undefined"
                  /\ rendered' = <<>>
                  /\ UNCHANGED <<table, move_record, move_count, mem, pushed,
                                 game_moves, last>>
               \/ \E okNode \in AllocOutcomes(p), okValue \in AllocOutcomes(p) :
                  LET hasMove == p.move # NO_MOVE
                      t1 == IF hasMove
                            THEN [table EXCEPT ![p.move] = PKG_GET_AI(p.val)]
                            ELSE table
                      m1 == IF hasMove
                            THEN record_move(move_record, move_count, p.move)
                            ELSE [move_record |-> move_record, move_count |-> move_count]
                      g1 == IF hasMove THEN Append(game_moves, p.move) ELSE game_moves
                      isEnd == PKG_GET_END(p.val)
                      q == record_to_queue(mem, head, m1.move_record, m1.move_count,
                                           PKG_GET_AI(p.val), okNode, okValue)
                  IN /\ rendered' = RenderedBoard(read_attr, t1)
                     /\ move_record' = m1.move_record
                     /\ IF isEnd
                        THEN /\ mem' = q.mem
                             /\ move_count' = q.move_count
                             /\ table' = ClearedTable
                             /\ game_moves' = <<>>
                             /\ pushed' = IF q.ret
                                          THEN Append(pushed,
                                                 [moves |-> Taken(m1.move_record, m1.move_count),
                                                  len |-> m1.move_count,
                                                  winner |-> PKG_GET_AI(p.val)])
                                          ELSE pushed
                             /\ last' = [op |-> "record_to_queue", arg |-> m1.move_count,
                                         called |-> q.called, ret |-> q.ret]
                        ELSE /\ mem' = mem
                             /\ move_count' = m1.move_count
                             /\ table' = t1
                             /\ game_moves' = g1
                             /\ pushed' = pushed
                             /\ last' = last
                     /\ pc' = pc
    /\ UNCHANGED <<head, read_attr, end_attr, input, attr, tty, entry, safe, kbd, nodata, n_dev,
                   n_key, n_ops, printed>>

\* line 162 finds end_attr set; lines 197-198 start the traversal
LoopExit ==
    /\ pc = "loop" /\ end_attr
    /\ pc' = "report"
    /\ entry' = mem.blk[head].next
    /\ safe' = mem.blk[mem.blk[head].next].next
    /\ rendered' = <<>>
    /\ UNCHANGED <<table, move_record, move_count, head, mem, read_attr, end_attr,
                   pkg_obj, input, attr, tty, kbd, nodata, dev, n_dev, n_key, n_ops, pushed,
                   printed, game_moves, dev_after_term, last>>

\* the report printing the look-ahead entry instead of the current one
ReportStepAhead ==
    /\ pc = "report" /\ entry # head
    /\ printed' = Append(printed, EntryOf(mem, safe))
    /\ entry' = safe
    /\ safe' = mem.blk[safe].next
    /\ UNCHANGED <<pc, table, move_record, move_count, head, mem, read_attr, end_attr,
                   pkg_obj, input, attr, tty, kbd, nodata, dev, n_dev, n_key, n_ops, pushed,
                   game_moves, rendered, dev_after_term, last>>

\* lines 198-201: one turn of list_for_each_entry_safe, printing the entry
ReportStep ==
    /\ pc = "report" /\ entry # head
    /\ printed' = Append(printed, EntryOf(mem, entry))
    /\ entry' = safe
    /\ safe' = mem.blk[safe].next
    /\ UNCHANGED <<pc, table, move_record, move_count, head, mem, read_attr, end_attr,
                   pkg_obj, input, attr, tty, kbd, nodata, dev, n_dev, n_key, n_ops, pushed,
                   game_moves, rendered, dev_after_term, last>>

\* lines 202-208: the traversal is over; q_free, restore standard input, return 0
Teardown ==
    /\ pc = "report" /\ entry = head
    /\ mem' = q_free(mem, head)
    /\ tty' = AtExit([raw_mode_disable(tty) EXCEPT !.nonblock = tty.flags])
    /\ kbd' = TcFlush(kbd)
    /\ pc' = "done"
    /\ UNCHANGED <<table, move_record, move_count, head, read_attr, end_attr, pkg_obj,
                   input, attr, entry, safe, nodata, dev, n_dev, n_key, n_ops, pushed,
                   printed, game_moves, rendered, dev_after_term, last>>

Next ==
    \/ KeyPress
    \/ StdinNoData
    \/ DevProduce
    \/ Startup
    \/ SelectError
    \/ KeyboardReady
    \/ DeviceReady
    \/ LoopExit
    \/ ReportStep
    \/ Teardown

Spec == Init /\ [][Next]_vars

\* the loop runs on: a source that select reports ready is serviced, and the
\* loop condition is tested again after every iteration
SpecLive ==
    /\ Init /\ [][Next]_vars
    /\ WF_vars(KeyboardReady)
    /\ WF_vars(DeviceReady)
    /\ WF_vars(LoopExit)

(***************************************************************************)
(* The queue interface called directly: any order, any arguments.          *)
(***************************************************************************)
FrameQ == UNCHANGED <<table, read_attr, end_attr, pkg_obj, input, attr, tty, entry,
                      safe, kbd, nodata, dev, n_dev, n_key, printed, game_moves, rendered,
                      dev_after_term>>

CallQNew ==
    /\ pc = "api" /\ n_ops < MaxOps /\ head = NULL
    /\ \E ok \in BOOLEAN :
          LET q == q_new(mem, ok)
          IN /\ head' = q.ret
             /\ mem' = q.mem
             /\ last' = [op |-> "q_new", arg |-> 0, called |-> TRUE, ret |-> q.ret # NULL]
    /\ n_ops' = n_ops + 1
    /\ UNCHANGED <<pc, move_record, move_count, pushed>>
    /\ FrameQ

CallRecordMove ==
    /\ pc = "api" /\ n_ops < MaxOps /\ move_count < N_GRIDS
    /\ \E m \in Cells :
          LET r == record_move(move_record, move_count, m)
          IN /\ move_record' = r.move_record
             /\ move_count' = r.move_count
    /\ last' = [op |-> "record_move", arg |-> 0, called |-> TRUE, ret |-> FALSE]
    /\ n_ops' = n_ops + 1
    /\ UNCHANGED <<pc, head, mem, pushed>>
    /\ FrameQ

CallQInsertHead ==
    /\ pc = "api" /\ n_ops < MaxOps
    /\ \E len \in 0..N_GRIDS, ai \in Marks, okNode \in BOOLEAN, okValue \in BOOLEAN :
          LET r == q_insert_head(mem, head, move_record, len, ai, okNode, okValue)
          IN /\ mem' = r.mem
             /\ last' = [op |-> "q_insert_head", arg |-> len, called |-> TRUE, ret |-> r.ret]
             /\ pushed' = IF r.ret
                          THEN Append(pushed, [moves |-> Taken(move_record, len),
                                               len |-> len, winner |-> ai])
                          ELSE pushed
    /\ n_ops' = n_ops + 1
    /\ UNCHANGED <<pc, head, move_record, move_count>>
    /\ FrameQ

CallRecordToQueue ==
    /\ pc = "api" /\ n_ops < MaxOps
    /\ \E winner \in Marks, okNode \in BOOLEAN, okValue \in BOOLEAN :
          LET r == record_to_queue(mem, head, move_record, move_count, winner,
                                   okNode, okValue)
          IN /\ mem' = r.mem
             /\ move_count' = r.move_count
             /\ last' = [op |-> "record_to_queue", arg |-> move_count,
                         called |-> r.called, ret |-> r.ret]
             /\ pushed' = IF r.ret
                          THEN Append(pushed, [moves |-> Taken(move_record, move_count),
                                               len |-> move_count, winner |-> winner])
                          ELSE pushed
    /\ n_ops' = n_ops + 1
    /\ UNCHANGED <<pc, head, move_record>>
    /\ FrameQ

CallQFree ==
    /\ pc = "api" /\ n_ops < MaxOps
    /\ mem' = q_free(mem, head)
    /\ pc' = IF head = NULL THEN "api" ELSE "freed"
    /\ last' = [op |-> "q_free", arg |-> 0, called |-> TRUE, ret |-> FALSE]
    /\ n_ops' = n_ops + 1
    /\ UNCHANGED <<head, move_record, move_count, pushed>>
    /\ FrameQ

NextQ ==
    \/ CallQNew
    \/ CallRecordMove
    \/ CallQInsertHead
    \/ CallRecordToQueue
    \/ CallQFree

SpecQ == InitQ /\ [][NextQ]_vars

(***************************************************************************)
(* The codec applied to a status byte: any byte to start from, any mark,   *)
(* the three writing macros in any order, the result stored back in val.   *)
(***************************************************************************)
Bytes == 0..255
MarkCodes == 0..127

InitCodec ==
    /\ pc = "codec"
    /\ table = [c \in Cells |-> CH_NUL]
    /\ move_record = [c \in Cells |-> 0]
    /\ move_count = 0
    /\ head = NULL
    /\ mem = EmptyMem
    /\ read_attr = FALSE
    /\ end_attr = FALSE
    /\ attr = AttrLive
    /\ tty = [raw |-> FALSE, nonblock |-> FALSE, orig_raw |-> FALSE,
              flags |-> FALSE, atexit |-> FALSE]
    /\ entry = NULL
    /\ safe = NULL
    /\ \E s \in Bytes : pkg_obj = [val |-> s, move |-> 0]
    /\ input = 0
    /\ kbd = FALSE
    /\ nodata = "none"
    /\ dev = FALSE
    /\ n_dev = 0
    /\ n_key = 0
    /\ n_ops = 0
    /\ pushed = <<>>
    /\ printed = <<>>
    /\ game_moves = <<>>
    /\ rendered = <<>>
    /\ dev_after_term = 0
    /\ last = [op |-> "none", arg |-> 0, called |-> FALSE, ret |-> FALSE]

FrameCodec == UNCHANGED <<pc, table, move_record, move_count, head, mem, read_attr,
                          end_attr, input, attr, tty, entry, safe, kbd, nodata, dev, n_dev,
                          n_key, pushed, printed, game_moves, rendered, dev_after_term>>

\* pkg.val = PKG_PUT_AI(pkg, c)
ApplyPutAI ==
    /\ pc = "codec" /\ n_ops < MaxOps
    /\ \E c \in MarkCodes :
          /\ pkg_obj' = [pkg_obj EXCEPT !.val = PKG_PUT_AI(pkg_obj.val, c)]
          /\ last' = [op |-> "PKG_PUT_AI", arg |-> c, called |-> TRUE, ret |-> FALSE]
    /\ n_ops' = n_ops + 1
    /\ FrameCodec

\* pkg.val = PKG_SET_END(pkg)
ApplySetEnd ==
    /\ pc = "codec" /\ n_ops < MaxOps
    /\ pkg_obj' = [pkg_obj EXCEPT !.val = PKG_SET_END(pkg_obj.val)]
    /\ last' = [op |-> "PKG_SET_END", arg |-> 0, called |-> TRUE, ret |-> FALSE]
    /\ n_ops' = n_ops + 1
    /\ FrameCodec

\* pkg.val = PKG_CLR_END(pkg)
ApplyClrEnd ==
    /\ pc = "codec" /\ n_ops < MaxOps
    /\ pkg_obj' = [pkg_obj EXCEPT !.val = PKG_CLR_END(pkg_obj.val)]
    /\ last' = [op |-> "PKG_CLR_END", arg |-> 0, called |-> TRUE, ret |-> FALSE]
    /\ n_ops' = n_ops + 1
    /\ FrameCodec

NextCodec ==
    \/ ApplyPutAI
    \/ ApplySetEnd
    \/ ApplyClrEnd

SpecCodec == InitCodec /\ [][NextCodec]_vars

(***************************************************************************)
(* Properties.                                                             *)
(***************************************************************************)
Reverse(q) == [i \in 1..Len(q) |-> q[Len(q) + 1 - i]]

\* a step of the session that reads one record from the device
DevStep == pc = "loop" /\ dev /\ ~dev'

\* a step of the session that reads one byte from the keyboard: the loop
\* goes on and the waiting byte is gone
KeyStep == pc = "loop" /\ pc' = "loop" /\ kbd /\ ~kbd'

\* the record read by this step has the end flag (bit 7 of the status byte)
ReadEnd == (pkg_obj'.val \div 128) % 2 = 1

\* a call made through the queue interface
CallStep(op) == n_ops' = n_ops + 1 /\ last'.op = op

\* C1: a game of k >= 1 move records followed by an end-flag record with the
\* sentinel move index pushes exactly one GameRecord at the front, holding the k
\* moves in arrival order and the low 7 bits of the end record's status byte.
\* Stated for the end records whose push_front succeeds.
C1_OneRecordPerGame ==
    [][(DevStep /\ ReadEnd /\ pkg_obj'.move = NO_MOVE /\ Len(game_moves) >= 1
        /\ last'.called /\ last'.ret)
       => QueueEntries(mem', head')
            = <<[moves |-> game_moves, len |-> Len(game_moves),
                 winner |-> pkg_obj'.val % 128]>> \o QueueEntries(mem, head)]_vars

\* C3: when push_front fails while an end-flag record is handled, the move
\* log is empty once the record has been processed.
C3_FailedPushDiscardsLog ==
    [][(DevStep /\ ReadEnd /\ pc' = "loop" /\ last'.called /\ ~last'.ret)
       => move_count' = 0]_vars

\* the blocks in use
UsedBlocks(h) == {a \in Addr : h.blk[a].used}

\* C2: front-to-back traversal yields the records in reverse insertion order,
\* each with the move sequence and winner supplied at its own push.
C2_TraversalIsReverseInsertion ==
    pc = "api" => QueueEntries(mem, head) = Reverse(pushed)

\* C2 witness: two records were pushed and the caller's move buffer no longer
\* holds the moves of the first one.
C2_Witness ==
    /\ pc = "api" /\ Len(pushed) = 2
    /\ pushed[1].len >= 1 /\ pushed[2].len >= 1
    /\ pushed[1].moves # pushed[2].moves
    /\ move_record[0] # pushed[1].moves[1]

\* C7 as written: push_front called with zero moves returns false, allocates
\* nothing and leaves the queue unchanged.
C7_ZeroMovePushIsNoOp ==
    [][(CallStep("q_insert_head") /\ last'.arg = 0) => (~last'.ret /\ mem' = mem)]_vars

\* C7 amended: record_to_queue with an empty move log returns without calling
\* push_front, allocates nothing and leaves the queue unchanged; push_front
\* itself, given zero moves and two successful allocations, inserts an empty
\* record and returns true.
C7_EmptyLogIsNotPushed ==
    [][/\ (CallStep("record_to_queue") /\ move_count = 0)
          => (~last'.called /\ ~last'.ret /\ mem' = mem /\ move_count' = 0
              /\ pushed' = pushed)
       /\ (CallStep("q_insert_head") /\ last'.arg = 0 /\ head # NULL
           /\ mem'.nalloc = mem.nalloc + 2)
          => (last'.ret
              /\ Len(QueueEntries(mem', head')) = Len(QueueEntries(mem, head)) + 1
              /\ QueueEntries(mem', head')[1].len = 0)]_vars

\* C7 witness: record_to_queue was called on an existing queue with an empty
\* move log.
C7_Witness ==
    /\ pc = "api" /\ head # NULL
    /\ last.op = "record_to_queue" /\ last.arg = 0 /\ ~last.called

\* C8: when an allocation inside push_front fails, push_front returns false
\* and every block of the queue is as before the call.
C8_FailedPushKeepsQueue ==
    [][(CallStep("q_insert_head") /\ head # NULL /\ mem'.nalloc < mem.nalloc + 2)
       => (/\ ~last'.ret
           /\ mem'.blk = mem.blk
           /\ QueueEntries(mem', head') = QueueEntries(mem, head))]_vars

\* C8 witness: on a queue holding a record, a push failed after its record
\* had been allocated.
C8_Witness ==
    /\ pc = "api" /\ Len(pushed) >= 1
    /\ last.op = "q_insert_head" /\ ~last.ret
    /\ mem.nfree >= 1

\* C9: nothing is released twice; while the queue lives the blocks in use
\* are its header and two per record; after q_free the frees equal the
\* successful allocations and no block is in use.
C9_AllocationsAreReleased ==
    /\ ~mem.bad
    /\ mem.nalloc - mem.nfree = Cardinality(UsedBlocks(mem))
    /\ pc = "api" =>
          Cardinality(UsedBlocks(mem))
             = IF head = NULL THEN 0 ELSE 1 + 2 * Len(QueueNodes(mem, head))
    /\ pc = "freed" => (mem.nalloc = mem.nfree /\ UsedBlocks(mem) = {})

\* C9 witness: a queue holding a record was destroyed after a push that
\* allocated its record and failed to allocate the move array.
C9_Witness ==
    /\ pc = "freed" /\ Len(pushed) >= 1
    /\ mem.nalloc > 1 + 2 * Len(pushed)

\* C4: the report prints every record once, front to back; the queue is
\* intact until the traversal is over and destroyed after it; nothing is
\* pushed once the loop has been left.
C4_ReportThenDestroy ==
    /\ [](pc = "report" =>
            /\ QueueEntries(mem, head) = Reverse(pushed)
            /\ Len(printed) <= Len(pushed)
            /\ printed = SubSeq(Reverse(pushed), 1, Len(printed))
            /\ (entry = head <=> Len(printed) = Len(pushed)))
    /\ [](pc = "done" => (printed = Reverse(pushed) /\ UsedBlocks(mem) = {}))
    /\ [][pc # "loop" => pushed' = pushed]_vars
    /\ [][(pc = "report" /\ mem' # mem) => (entry = head /\ pc' = "done")]_vars

\* C4 witness: the session ended after reporting two different records.
C4_Witness ==
    /\ pc = "done" /\ Len(printed) = 2 /\ printed[1] # printed[2]

\* C5 as written: at least one device record is read between the terminate
\* key being handled and the loop exit.
C5_DeviceReadBeforeExit ==
    pc \in {"report", "done"} => dev_after_term >= 1

\* C5 amended: the loop is left only after the terminate key has been
\* handled, at the next test of the loop condition: no device record is read
\* between the terminate key and the exit.
C5_ExitRightAfterTerminate ==
    pc \in {"report", "done"} => (end_attr /\ input = CTRL_Q /\ dev_after_term = 0)

\* C5 witness: the loop was left while a device record was waiting unread.
C5_Witness ==
    /\ pc = "report" /\ dev /\ end_attr

\* C6: reading a heartbeat (sentinel move index, end flag clear) changes
\* neither the board, the move log, the queue nor the control flags, paints
\* nothing and leaves the session in its loop.
C6_HeartbeatChangesNothing ==
    [][(DevStep /\ pkg_obj'.move = NO_MOVE /\ ~ReadEnd)
       => (/\ UNCHANGED <<table, move_record, move_count, head, mem, read_attr,
                          end_attr, attr, pushed, game_moves>>
           /\ rendered' = <<>>
           /\ pc' = "loop")]_vars

\* C6 witness: with the display on and a move logged, and no key read so
\* far, a heartbeat was the latest record read and nothing was painted.
C6_Witness ==
    /\ pc = "loop" /\ read_attr /\ input = 0 /\ move_count >= 1
    /\ pkg_obj.move = NO_MOVE /\ pkg_obj.val < 128
    /\ rendered = <<>>

\* C10: a display toggle with the attribute file opened flips byte 0 between
\* '1' and '0', writes bytes 1..5 back unchanged and negates display_enabled;
\* a second toggle restores the record and the flag.
C10_DisplayToggle ==
    /\ [][(KeyStep /\ input' = CTRL_P /\ last'.ret)
          => (/\ attr[1] \in {CH_0, CH_1}
              /\ attr'[1] = (IF attr[1] = CH_1 THEN CH_0 ELSE CH_1)
              /\ \A i \in 2..6 : attr'[i] = attr[i]
              /\ read_attr' = ~read_attr
              /\ end_attr' = end_attr)]_vars
    /\ [](pc = "loop" =>
            LET r1 == listen_keyboard_handler(CTRL_P, read_attr, end_attr, attr, TRUE, attr)
                r2 == listen_keyboard_handler(CTRL_P, r1.read_attr, r1.end_attr, r1.attr,
                                              TRUE, r1.attr)
            IN r2.attr = attr /\ r2.read_attr = read_attr /\ r1.attr # attr)

\* C10 witness: two display toggles were handled, both with the file opened,
\* and the record and the flag are back at their initial values.
C10_Witness ==
    /\ pc = "loop" /\ n_key = 2 /\ ~kbd /\ input = CTRL_P /\ last.op = "open" /\ last.ret
    /\ attr = AttrLive /\ read_attr

\* C11 as written: terminate_requested is false until the terminate key is
\* read, only that key sets it and it never returns to false; handling the
\* terminate key forces byte 4 of the attribute record to '1', leaves the
\* other bytes unchanged, clears display_enabled and sets terminate_requested.
C11_TerminateForcesByte4 ==
    /\ [](pc = "start" => ~end_attr)
    /\ [][end_attr' # end_attr => (KeyStep /\ input' = CTRL_Q /\ end_attr')]_vars
    /\ [][(KeyStep /\ input' = CTRL_Q)
          => (/\ attr'[5] = CH_1
              /\ \A i \in {1, 2, 3, 4, 6} : attr'[i] = attr[i]
              /\ ~read_attr'
              /\ end_attr')]_vars

\* C11 amended: as above for the two flags; the attribute record has byte 4
\* forced to '1' and its other bytes unchanged when the attribute file opens,
\* and is left as it was when the file cannot be opened.
C11_TerminateKey ==
    /\ [](pc = "start" => ~end_attr)
    /\ [][end_attr' # end_attr => (KeyStep /\ input' = CTRL_Q /\ end_attr')]_vars
    /\ [][(KeyStep /\ input' = CTRL_Q)
          => (/\ ~read_attr'
              /\ end_attr'
              /\ IF last'.ret
                 THEN /\ attr'[5] = CH_1
                      /\ \A i \in {1, 2, 3, 4, 6} : attr'[i] = attr[i]
                 ELSE attr' = attr)]_vars

\* C11 witness: after a display toggle, the terminate key was handled with
\* the file opened: byte 4 is '1', byte 0 is still '0', the loop is not yet left.
C11_Witness ==
    /\ pc = "loop" /\ end_attr /\ ~read_attr /\ input = CTRL_Q
    /\ last.op = "open" /\ last.ret
    /\ attr = <<CH_0, CH_SP, CH_1, CH_SP, CH_1, 10>>

\* C12: when the attribute file cannot be opened while a display-toggle key
\* is handled, the attribute record is not written, display_enabled keeps its
\* value and the session stays in its loop.
C12_FailedOpenSkipsToggle ==
    [][(KeyStep /\ input' = CTRL_P /\ ~last'.ret)
       => (attr' = attr /\ read_attr' = read_attr /\ pc' = "loop")]_vars

\* C13: at every process exit after raw_mode_enable ran, standard input has
\* the terminal mode and the non-blocking flag it had before the session
\* (cooked and blocking, as in the initial state).
C13_StdinRestoredOnExit ==
    (pc \in {"done", "exit1"} /\ tty.atexit) => (~tty.raw /\ ~tty.nonblock)

\* C14: codec round trip.  For every status byte s and every mark m in
\* 0..127, reading the mark of PKG_PUT_AI(s, m) gives m, and its end flag is
\* the end flag of s.
C14_CodecRoundTrip ==
    [][CallStep("PKG_PUT_AI")
       => (/\ PKG_GET_AI(pkg_obj'.val) = last'.arg
           /\ PKG_GET_END(pkg_obj'.val) = PKG_GET_END(pkg_obj.val)
           /\ pkg_obj'.val \in Bytes)]_vars

\* C14 witness: mark 'X' was stored into a status byte whose end flag is set
\* and stays set.
C14_Witness ==
    /\ pc = "codec" /\ n_ops = 1 /\ last.op = "PKG_PUT_AI" /\ last.arg = 88
    /\ pkg_obj.val = 128 + 88

\* C15: end-bit independence.  For every status byte s, PKG_SET_END and
\* PKG_CLR_END keep the low 7 bits of s, PKG_SET_END followed by PKG_CLR_END
\* gives back the low 7 bits, the end flag reads true after PKG_SET_END and
\* false after PKG_CLR_END.
C15_EndBitIndependence ==
    /\ [](pc = "codec" =>
            LET s == pkg_obj.val
            IN /\ PKG_GET_AI(PKG_SET_END(s)) = s % 128
               /\ PKG_GET_AI(PKG_CLR_END(s)) = s % 128
               /\ PKG_CLR_END(PKG_SET_END(s)) = s % 128
               /\ PKG_GET_END(PKG_SET_END(s))
               /\ ~PKG_GET_END(PKG_CLR_END(s)))
    /\ [][CallStep("PKG_SET_END")
          => (pkg_obj'.val = 128 + (pkg_obj.val % 128) /\ PKG_GET_END(pkg_obj'.val))]_vars
    /\ [][CallStep("PKG_CLR_END")
          => (pkg_obj'.val = pkg_obj.val % 128 /\ ~PKG_GET_END(pkg_obj'.val))]_vars

\* C15 witness: the end flag was cleared on a status byte that carries
\* mark 'O' after two earlier codec steps.
C15_Witness ==
    /\ pc = "codec" /\ n_ops = 3 /\ last.op = "PKG_CLR_END" /\ pkg_obj.val = 79

\* the positions in the current game's moves at which cell c was played
PlayedAt(c) == {i \in 1..Len(game_moves) : game_moves[i] = c}

\* the mark sent with the i-th move of a game: 'O' moves first
MarkOfMove(i) == IF i % 2 = 1 THEN 79 ELSE 88

\* C16: from startup on, each cell of the board holds ' ' when the current
\* game has no move on it, else the mark of the latest move on it; so the
\* board is all ' ' before the first record and after every end-flag record.
C16_BoardIsBlankOrLatestMark ==
    pc \in {"loop", "report", "done"} =>
       \A c \in Cells :
          table[c] = IF PlayedAt(c) = {} THEN CH_SP
                     ELSE MarkOfMove(CHOOSE i \in PlayedAt(c) :
                                        \A j \in PlayedAt(c) : j <= i)

\* C17: the move log never holds more than N_GRIDS moves, given that the
\* device sends at most N_GRIDS moves between two end-flag records.
C17_MoveCountBounded ==
    move_count \in 0..N_GRIDS

\* display_enabled is true exactly when byte 0 of the attribute record is '1'
ShadowAgrees == read_attr <=> attr[1] = CH_1

\* C18 as written: the flag and byte 0 agree when the loop is entered, and
\* every display-toggle or terminate key handled with the file opened keeps
\* them in agreement; nothing else changes either.
C18_ShadowAlwaysAgrees ==
    /\ []((pc = "loop" /\ n_key = 0) => ShadowAgrees)
    /\ [][(KeyStep /\ last'.ret /\ ShadowAgrees) => ShadowAgrees']_vars
    /\ [][(pc = "loop" /\ ~KeyStep) => UNCHANGED <<read_attr, attr>>]_vars

\* C18 amended: the agreement is kept by every key handled with the file
\* opened except the terminate key; the terminate key clears display_enabled
\* and leaves byte 0 as it was, so after it the flag is false whatever byte 0
\* holds.
C18_ShadowAgreesUntilTerminate ==
    /\ []((pc = "loop" /\ n_key = 0) => ShadowAgrees)
    /\ [][(KeyStep /\ last'.ret /\ ShadowAgrees /\ input' # CTRL_Q) => ShadowAgrees']_vars
    /\ [][(KeyStep /\ input' = CTRL_Q) => (~read_attr' /\ attr'[1] = attr[1])]_vars
    /\ [][(pc = "loop" /\ ~KeyStep) => UNCHANGED <<read_attr, attr>>]_vars

\* C18 witness: standard input became readable three times and the latest
\* display toggle, handled with the file opened, left the display off in both
\* the flag and byte 0.
C18_Witness ==
    /\ pc = "loop" /\ ~end_attr /\ n_key = 3 /\ ~kbd
    /\ input = CTRL_P /\ last.op = "open" /\ last.ret
    /\ ~read_attr /\ attr[1] = CH_0

\* a step of the session that finds standard input readable with no byte
EmptyKeyStep == pc = "loop" /\ ~kbd /\ nodata # "none" /\ last' # last

\* C19: an iteration of the loop services one source, standard input first
\* when both are ready; servicing the keyboard leaves a waiting device record
\* waiting and the decoded state untouched; a record is decoded only by the
\* step that takes it off the device; and, the keyboard producing finitely
\* many bytes, a waiting record is read in the end unless terminate is
\* requested or select fails first.
C19_OneSourcePerWakeup ==
    /\ [][~(KeyStep /\ DevStep)]_vars
    /\ [][DevStep => (~StdinReadable(kbd, nodata) /\ ~kbd')]_vars
    /\ [][(KeyStep \/ EmptyKeyStep)
            => (dev' = dev /\ UNCHANGED <<pkg_obj, table, move_record, move_count,
                                          mem, pushed, game_moves>>)]_vars
    /\ [][(pc = "loop" /\ (pkg_obj' # pkg_obj \/ table' # table
                           \/ move_count' # move_count \/ pushed' # pushed))
          => DevStep]_vars
    /\ [][(pc = "loop" /\ dev /\ ~dev') => pkg_obj' \in DevPkgs]_vars
    /\ ((pc = "loop" /\ dev /\ ~end_attr) ~> (~dev \/ end_attr \/ pc = "exit1"))

\* the board as the record just read leaves it, before any reset
BoardWithMove ==
    IF pkg_obj'.move # NO_MOVE
    THEN [table EXCEPT ![pkg_obj'.move] = pkg_obj'.val % 128]
    ELSE table

\* C20: a device record is painted exactly when it is not a heartbeat and
\* display_enabled is true; what is painted is the board with the record's
\* move on it and not yet reset, so for an end-flag record it is the final
\* position of the game; no other step paints, and nothing is painted once
\* terminate has been requested.
C20_RenderOnDisplayedRecord ==
    /\ [][(DevStep /\ pc' = "loop")
          => (/\ (rendered' # <<>>)
                    <=> (read_attr /\ ~(pkg_obj'.move = NO_MOVE /\ ~ReadEnd))
              /\ rendered' # <<>> => rendered' = <<BoardWithMove>>
              /\ ReadEnd => table' = ClearedTable)]_vars
    /\ [][(~DevStep /\ rendered' # rendered) => rendered' = <<>>]_vars
    /\ [](end_attr => rendered = <<>>)

\* C20 witness: with the display on, an end-flag record carrying the second
\* move of a game was painted as the final position and the board was reset.
C20_Witness ==
    /\ pc = "loop" /\ read_attr /\ pkg_obj = [val |-> 128 + 88, move |-> 1]
    /\ rendered = <<(0 :> 79) @@ (1 :> 88)>>
    /\ table = ClearedTable /\ game_moves = <<>>

====
